---- MODULE Spec2Model ----
(***************************************************************************)
(* MeshLogic SDK: the request / response / error-mapping pipeline of the   *)
(* Go client (package meshlogic) and of the TypeScript client              *)
(* (MeshLogicClient).  Both clients are modelled side by side; the field   *)
(* sdk of a client says which code path a step follows.                    *)
(*                                                                         *)
(* Text that the code only copies (keys, paths, messages) is a TLA+        *)
(* string.  Text that the code scans (the Retry-After header) is a         *)
(* sequence of one-character strings.  A response body is the JSON value   *)
(* it denotes (Raw gives its text); each client parses it its own way.     *)
(* A base URL is a string; what the URL parsers make of it (Go url.Parse,  *)
(* JavaScript new URL) is tabulated for the base URLs the model draws.     *)
(***************************************************************************)
EXTENDS Integers, Sequences, FiniteSets, TLC

VARIABLES
    env,         \* value of MESHLOGIC_API_KEY ("" when unset)
    sharedHttp,  \* Timeout (ms) of the caller-owned http.Client given to WithHTTPClient
    newIn,       \* arguments of the latest construction
    newOut,      \* what the latest construction returned or threw
    client,      \* the client the requests are issued on
    pc,          \* position of the current call: idle, fetch, body, export, blob, done
    call,        \* the method called and its arguments
    req,         \* arguments of the current request call
    wire,        \* the HTTP request the call has put on the wire
    shown,       \* the string form of the error the caller formatted last
    prev,        \* the previous call and its outcome, when the caller kept them
    resp,        \* what the server has answered so far
    timer,       \* TRUE while a timeout timer is scheduled for the call
    elapsed,     \* TRUE once the configured timeout has elapsed during the call
    result,      \* what the call returned or threw
    netCalls,    \* number of HTTP requests put on the wire
    sent,        \* number of HTTP requests the current call has sent
    bodyOpen     \* TRUE while the call holds a response body it has not closed

vars == <<env, sharedHttp, newIn, newOut, client, pc, call, req, wire, shown,
          prev, resp, timer, elapsed, result, netCalls, sent, bodyOpen>>

----------------------------------------------------------------------------
(* Bounds *)

\* longest option list handed to the Go NewClient
MaxOpts == 3

\* number of HTTP requests the calls of one behaviour put on the wire
MaxCalls == 2

----------------------------------------------------------------------------
(* Program constants *)

DefaultRegion == "ap-southeast-2"

endpoints ==
    [r \in {"ap-southeast-2", "us-east-1", "eu-west-1"} |->
        CASE r = "ap-southeast-2" -> "https://api.meshlogic.ai"
          [] r = "us-east-1"      -> "https://api.us.meshlogic.ai"
          [] r = "eu-west-1"      -> "https://api.eu.meshlogic.ai"]

\* 30 * time.Second, and the 30000 of the TypeScript constructor
DefaultTimeoutMs == 30000

\* retryAfter := 60, and the '60' of the TypeScript parseInt
DefaultRetryAfter == 60

\* Go zero value of Error.StatusCode; the model also uses it for the
\* TypeScript statusCode left undefined
NoStatus == 0

GoKeyRequired ==
    "API key required. Provide via WithAPIKey() or MESHLOGIC_API_KEY environment variable."

TsKeyRequired ==
    "API key required. Provide via apiKey option or MESHLOGIC_API_KEY environment variable."

----------------------------------------------------------------------------
(* Error values *)

\* A number field that the TypeScript client may compute as NaN.
Num(n) == [nan |-> FALSE, n |-> n]
NaN == [nan |-> TRUE, n |-> 0]

NoErr == [kind |-> "none", code |-> "", message |-> "", status |-> NoStatus,
          retryAfter |-> Num(0), field |-> ""]

\* kind is the dynamic type of the error value: one of the SDK's error
\* types, or the type of a foreign error (a Go error of net/http, io,
\* net/url or encoding/json; a JavaScript TypeError or SyntaxError).
MkErr(kind, code, message, status, retryAfter) ==
    [kind |-> kind, code |-> code, message |-> message, status |-> status,
     retryAfter |-> retryAfter, field |-> ""]

\* Go: &Error{...} and the Error embedded in the specialised errors
GoError(code, message, status) ==
    MkErr("Error", code, message, status, Num(0))

GoAuthenticationError(e) == [e EXCEPT !.kind = "AuthenticationError"]

GoNotFoundError(e) == [e EXCEPT !.kind = "NotFoundError"]

GoRateLimitError(e, retryAfter) ==
    [e EXCEPT !.kind = "RateLimitError", !.retryAfter = retryAfter]

\* Go: &ValidationError{Error: e, Field: field}
GoValidationError(e, field) ==
    [e EXCEPT !.kind = "ValidationError", !.field = field]

\* Go: an error value of another package, returned as it is
GoForeignError(kind, message) ==
    MkErr(kind, "", message, NoStatus, Num(0))

\* TypeScript: new MeshLogicError(message, code, statusCode)
MeshLogicError(message, code, status) ==
    MkErr("MeshLogicError", code, message, status, Num(0))

\* TypeScript: new AuthenticationError(message)
TsAuthenticationError(message) ==
    MkErr("AuthenticationError", "AUTH_ERROR", message, 401, Num(0))

\* TypeScript: new NotFoundError(message)
TsNotFoundError(message) ==
    MkErr("NotFoundError", "NOT_FOUND", message, 404, Num(0))

\* TypeScript: new RateLimitError(message, retryAfter)
TsRateLimitError(message, retryAfter) ==
    MkErr("RateLimitError", "RATE_LIMIT", message, 429, retryAfter)

\* TypeScript: new ValidationError(message, field); field "" when undefined
TsValidationError(message, field) ==
    [MkErr("ValidationError", "VALIDATION_ERROR", message, 400, Num(0))
        EXCEPT !.field = field]

\* TypeScript: a built-in exception (TypeError, SyntaxError) thrown as it is
TsForeignError(kind, message) ==
    MkErr(kind, "", message, NoStatus, Num(0))

\* Go: the error types of package meshlogic
GoSdkKinds == {"Error", "AuthenticationError", "NotFoundError",
               "RateLimitError", "ValidationError"}

\* TypeScript: MeshLogicError and its subclasses, what "instanceof
\* MeshLogicError" accepts
TsSdkKinds == {"MeshLogicError", "AuthenticationError", "NotFoundError",
               "RateLimitError", "ValidationError"}

\* the typed errors of the client of one SDK
SdkKinds(sdk) == IF sdk = "go" THEN GoSdkKinds ELSE TsSdkKinds

GenericKinds == {"Error", "MeshLogicError"}

----------------------------------------------------------------------------
(* Response bodies: JSON values and their text *)

Absent == [t |-> "absent", s |-> ""]
JNull == [t |-> "null", s |-> ""]
Str(s) == [t |-> "str", s |-> s]

\* t: "empty" (no bytes), "text" (bytes that are not JSON), "null", "array",
\* "object" (with members code and message, each absent, null or a string)
MkBody(t, text, code, message) ==
    [t |-> t, text |-> text, code |-> code, message |-> message,
     field |-> Absent]

EmptyBody == MkBody("empty", "", Absent, Absent)
TextBody(text) == MkBody("text", text, Absent, Absent)
NullBody == MkBody("null", "", Absent, Absent)
ArrayBody == MkBody("array", "", Absent, Absent)
ObjectBody(code, message) == MkBody("object", "", code, message)

\* an error payload that also names the offending field
FieldBody(code, message, field) ==
    [ObjectBody(code, message) EXCEPT !.field = field]

Member(name, f) ==
    CASE f.t = "absent" -> ""
      [] f.t = "null"   -> "\"" \o name \o "\":null"
      [] f.t = "str"    -> "\"" \o name \o "\":\"" \o f.s \o "\""

\* the bytes of the body as the server sent them
Raw(b) ==
    CASE b.t = "empty"  -> ""
      [] b.t = "text"   -> b.text
      [] b.t = "null"   -> "null"
      [] b.t = "array"  -> "[]"
      [] b.t = "object" ->
            "{" \o Member("code", b.code)
                \o (IF b.code.t # "absent" /\ b.message.t # "absent" THEN "," ELSE "")
                \o Member("message", b.message)
                \o (IF b.field.t # "absent"
                       /\ (b.code.t # "absent" \/ b.message.t # "absent")
                    THEN "," ELSE "")
                \o Member("field", b.field) \o "}"

\* Go: a string field after json.Unmarshal: an absent member and a null
\* leave the zero value
GoStringField(f) == IF f.t = "str" THEN f.s ELSE ""

\* Go: json.Unmarshal(respBody, &apiErr) into a zero Error
GoUnmarshalError(b) ==
    CASE b.t \in {"empty", "text", "array"} ->
            [ok |-> FALSE, Code |-> "", Message |-> ""]
      [] b.t = "null" ->
            [ok |-> TRUE, Code |-> "", Message |-> ""]
      [] b.t = "object" ->
            [ok |-> TRUE, Code |-> GoStringField(b.code),
             Message |-> GoStringField(b.message)]

\* TypeScript: response.json(): rejects on bytes that are not JSON
TsJsonOk(b) == b.t \in {"null", "array", "object"}

\* TypeScript: await response.json().catch(() => ({}))
TsErrorData(b) == IF TsJsonOk(b) THEN b ELSE ObjectBody(Absent, Absent)

\* TypeScript: errorData.<member> on null throws a TypeError
TsMemberThrows(d) == d.t = "null"

\* TypeScript: errorData.<member> || fallback
TsOr(f, fallback) == IF f.t = "str" /\ f.s # "" THEN f.s ELSE fallback

----------------------------------------------------------------------------
(* The Retry-After header *)

Digits == {"0", "1", "2", "3", "4", "5", "6", "7", "8", "9"}

DigitVal(ch) ==
    CASE ch = "0" -> 0 [] ch = "1" -> 1 [] ch = "2" -> 2 [] ch = "3" -> 3
      [] ch = "4" -> 4 [] ch = "5" -> 5 [] ch = "6" -> 6 [] ch = "7" -> 7
      [] ch = "8" -> 8 [] ch = "9" -> 9

NoHeader == [present |-> FALSE, v |-> <<>>]
Header(v) == [present |-> TRUE, v |-> v]

\* Go: resp.Header.Get: "" for a header that is not there
GoHeaderGet(h) == IF h.present THEN h.v ELSE <<>>

RECURSIVE SkipSpace(_, _)
\* index of the first character of s at or after i that is not a space
SkipSpace(s, i) ==
    IF i <= Len(s) /\ s[i] = " " THEN SkipSpace(s, i + 1) ELSE i

RECURSIVE ScanDigits(_, _, _)
\* the value of the longest run of decimal digits of s starting at i
ScanDigits(s, i, acc) ==
    IF i <= Len(s) /\ s[i] \in Digits
    THEN ScanDigits(s, i + 1, 10 * acc + DigitVal(s[i]))
    ELSE acc

\* the scan both fmt's %d and parseInt(_, 10) perform: blanks, a sign, digits
ScanInt(s) ==
    LET i == SkipSpace(s, 1)
        signed == i <= Len(s) /\ s[i] \in {"+", "-"}
        j == IF signed THEN i + 1 ELSE i
        ok == j <= Len(s) /\ s[j] \in Digits
        n == ScanDigits(s, j, 0)
    IN  [ok |-> ok, n |-> IF signed /\ s[i] = "-" THEN 0 - n ELSE n]

\* Go: retryAfter := 60; if ra != "" { fmt.Sscanf(ra, "%d", &retryAfter) }
GoRetryAfter(h) ==
    LET ra == GoHeaderGet(h)
    IN  IF ra # <<>> /\ ScanInt(ra).ok THEN Num(ScanInt(ra).n)
        ELSE Num(DefaultRetryAfter)

\* TypeScript: parseInt(response.headers.get('Retry-After') || '60', 10)
TsRetryAfter(h) ==
    LET ra == IF h.present /\ h.v # <<>> THEN h.v ELSE <<"6", "0">>
    IN  IF ScanInt(ra).ok THEN Num(ScanInt(ra).n) ELSE NaN

----------------------------------------------------------------------------
(* Client construction *)

\* A client value.  http says which http.Client a Go client holds: "own",
\* the one NewClient allocated (its Timeout is the field timeout), or
\* "shared", the caller's (its Timeout is the variable sharedHttp).  A
\* TypeScript client keeps its timeout in the field timeout.
MkClient(sdk, apiKey, baseURL, http, timeout) ==
    [sdk |-> sdk, apiKey |-> apiKey, baseURL |-> baseURL, http |-> http,
     timeout |-> timeout]

NoClient == MkClient("none", "", "", "own", 0)

\* Go client options
Opt(name, s, d) == [opt |-> name, s |-> s, d |-> d]
WithAPIKey(apiKey) == Opt("WithAPIKey", apiKey, 0)
WithRegion(region) == Opt("WithRegion", region, 0)
WithBaseURL(baseURL) == Opt("WithBaseURL", baseURL, 0)
WithHTTPClient == Opt("WithHTTPClient", "shared", 0)
WithTimeout(ms) == Opt("WithTimeout", "", ms)

\* Go: opt(c).  st is the client under construction together with the
\* Timeout of the caller's http.Client, which WithTimeout writes through
\* the pointer when the client holds it.
ApplyOpt(st, o) ==
    CASE o.opt = "WithAPIKey" ->
            [st EXCEPT !.c.apiKey = o.s]
      [] o.opt = "WithRegion" ->
            IF o.s \in DOMAIN endpoints
            THEN [st EXCEPT !.c.baseURL = endpoints[o.s]]
            ELSE st
      [] o.opt = "WithBaseURL" ->
            [st EXCEPT !.c.baseURL = o.s]
      [] o.opt = "WithHTTPClient" ->
            [st EXCEPT !.c.http = "shared"]
      [] o.opt = "WithTimeout" ->
            IF st.c.http = "shared"
            THEN [st EXCEPT !.shared = o.d]
            ELSE [st EXCEPT !.c.timeout = o.d]

RECURSIVE ApplyOpts(_, _)
\* Go: for _, opt := range opts { opt(c) }
ApplyOpts(st, opts) ==
    IF opts = <<>> THEN st
    ELSE ApplyOpts(ApplyOpt(st, Head(opts)), Tail(opts))

\* Go: NewClient(opts...): the client or nil, the error or nil, and the
\* Timeout the caller's http.Client is left with
NewClient(opts, envKey, shared) ==
    LET c0 == MkClient("go", "", endpoints[DefaultRegion], "own", DefaultTimeoutMs)
        st == ApplyOpts([c |-> c0, shared |-> shared], opts)
        key == IF st.c.apiKey = "" THEN envKey ELSE st.c.apiKey
    IN  IF key = ""
        THEN [client |-> NoClient,
              err |-> GoError("AUTH_ERROR", GoKeyRequired, NoStatus),
              shared |-> st.shared]
        ELSE [client |-> [st.c EXCEPT !.apiKey = key],
              err |-> NoErr,
              shared |-> st.shared]

\* TypeScript: an optional member of ClientConfig
Unset == [set |-> FALSE, s |-> "", d |-> 0]
SetStr(s) == [set |-> TRUE, s |-> s, d |-> 0]
SetNum(d) == [set |-> TRUE, s |-> "", d |-> d]

\* TypeScript: x || y on an optional string
OrStr(x, y) == IF x.set /\ x.s # "" THEN x.s ELSE y

\* TypeScript: x || y on an optional number
OrNum(x, y) == IF x.set /\ x.d # 0 THEN x.d ELSE y

\* JavaScript: the members a plain object such as ENDPOINTS inherits from
\* Object.prototype
ObjectMembers ==
    {"constructor", "toString", "toLocaleString", "valueOf", "hasOwnProperty",
     "isPrototypeOf", "propertyIsEnumerable", "__proto__",
     "__defineGetter__", "__defineSetter__", "__lookupGetter__",
     "__lookupSetter__"}

\* JavaScript: the inherited member of that name, which is no string: a
\* native function or, for __proto__, the object Object.prototype.  The
\* client keeps the member as its baseUrl.
Inherited(name) == IF name = "__proto__" THEN "<object>" ELSE "<function>"

\* TypeScript: ENDPOINTS[region] || ENDPOINTS['ap-southeast-2']: the lookup
\* finds the own entries and the inherited members, all of them truthy
TsEndpoint(region) ==
    IF region \in DOMAIN endpoints THEN endpoints[region]
    ELSE IF region \in ObjectMembers THEN Inherited(region)
    ELSE endpoints[DefaultRegion]

\* TypeScript: new MeshLogicClient(config)
MeshLogicClient(config, envKey) ==
    LET apiKey == OrStr(config.apiKey, envKey)
        region == OrStr(config.region, DefaultRegion)
    IN  IF apiKey = ""
        THEN [client |-> NoClient, err |-> TsAuthenticationError(TsKeyRequired)]
        ELSE [client |-> MkClient("ts", apiKey,
                                  OrStr(config.baseUrl, TsEndpoint(region)),
                                  "own",
                                  OrNum(config.timeout, DefaultTimeoutMs)),
              err |-> NoErr]

\* Go: the Timeout of the http.Client the client holds; TypeScript: this.timeout
Timeout(c, shared) == IF c.http = "shared" THEN shared ELSE c.timeout

----------------------------------------------------------------------------
(* request: the outcome of a call *)

\* what has come back: the status line and headers, then the body when it
\* has arrived whole (complete), or the transport's failure
MkResp(status, retryAfter, body, complete, transport) ==
    [status |-> status, retryAfter |-> retryAfter, body |-> body,
     complete |-> complete, transport |-> transport]

NoResp == MkResp(NoStatus, NoHeader, EmptyBody, FALSE, "")

\* outcome of a call: ok with the Go bytes or the TypeScript parsed JSON,
\* or an error
MkResult(ok, bytes, json, err) ==
    [ok |-> ok, bytes |-> bytes, json |-> json, err |-> err]

NoResult == MkResult(FALSE, "", EmptyBody, NoErr)
Failure(err) == MkResult(FALSE, "", EmptyBody, err)
GoSuccess(bytes) == MkResult(TRUE, bytes, EmptyBody, NoErr)
TsSuccess(json) == MkResult(TRUE, "", json, NoErr)

\* Go: the *url.Error of httpClient.Do for the request w on the wire
GoDoError(c, w, desc) ==
    GoForeignError("url.Error", "Get \"" \o w.url \o "\": " \o desc)

\* a request that returns the body of every response, whatever its status
ReturnAnyBody(status, retryAfter, b) == GoSuccess(Raw(b))

\* Go: request from the complete response on (resp.StatusCode >= 400 ...)
GoHandleResponse(status, retryAfter, b) ==
    IF status >= 400
    THEN LET u == GoUnmarshalError(b)
             apiErr == IF u.ok THEN GoError(u.Code, u.Message, status)
                       ELSE GoError("UNKNOWN", Raw(b), status)
         IN  CASE status = 401 -> Failure(GoAuthenticationError(apiErr))
               [] status = 404 -> Failure(GoNotFoundError(apiErr))
               [] status = 429 ->
                     Failure(GoRateLimitError(apiErr, GoRetryAfter(retryAfter)))
               [] OTHER -> Failure(apiErr)
    ELSE GoSuccess(Raw(b))

\* TypeScript: String(error) of an exception, Error.prototype.toString: the
\* name alone when the message is empty
TsString(e) == IF e.message = "" THEN e.kind ELSE e.kind \o ": " \o e.message

\* TypeScript: the catch clause of request
TsCatch(e) ==
    IF e.kind \in TsSdkKinds THEN e
    ELSE IF e.kind = "AbortError" THEN MeshLogicError("Request timeout", "TIMEOUT", NoStatus)
    ELSE MeshLogicError(TsString(e), "NETWORK_ERROR", NoStatus)

\* TypeScript: response.ok
TsResponseOk(status) == status >= 200 /\ status <= 299

\* TypeScript: the switch on response.status, on the parsed errorData
TsThrowFor(status, retryAfter, d, path) ==
    IF TsMemberThrows(d)
    THEN TsForeignError("TypeError",
                        "Cannot read properties of null (reading 'message')")
    ELSE CASE status = 401 ->
                TsAuthenticationError(TsOr(d.message, "Invalid or expired API key"))
           [] status = 404 ->
                TsNotFoundError(TsOr(d.message, "Resource not found: " \o path))
           [] status = 429 ->
                TsRateLimitError(TsOr(d.message, "Rate limit exceeded"),
                                 TsRetryAfter(retryAfter))
           [] OTHER ->
                MeshLogicError(TsOr(d.message, "Unknown error"),
                               TsOr(d.code, "UNKNOWN"), status)

\* TypeScript: request from the response on (if (!response.ok) ...), the body
\* having arrived whole.  The promise of "return response.json()" is not
\* awaited inside the try, so its rejection bypasses the catch clause.
TsHandleResponse(status, retryAfter, b, path) ==
    IF ~TsResponseOk(status)
    THEN Failure(TsCatch(TsThrowFor(status, retryAfter, TsErrorData(b), path)))
    ELSE IF TsJsonOk(b) THEN TsSuccess(b)
    ELSE Failure(TsForeignError("SyntaxError",
                                IF b.t = "empty" THEN "Unexpected end of JSON input"
                                ELSE "Unexpected token in JSON at position 0"))

\* TypeScript: the same when reading the body fails with exception e:
\* .catch(() => ({})) swallows it on the error branch
TsHandleBodyFailure(status, retryAfter, e, path) ==
    IF ~TsResponseOk(status)
    THEN Failure(TsCatch(TsThrowFor(status, retryAfter,
                                    ObjectBody(Absent, Absent), path)))
    ELSE Failure(e)

----------------------------------------------------------------------------
(* String forms of the errors *)

\* the text of a number in a format: Go %d, TypeScript ${n}
NumText(r) == IF r.nan THEN "NaN" ELSE ToString(r.n)

\* a string form that shows the message alone
MessageOnly(e) == <<e.message>>

\* Go: the Error() method an error value answers to, as the pieces the
\* format puts together
GoErrorString(e) ==
    CASE e.kind = "RateLimitError" ->
            <<e.message, ". Retry after ", NumText(e.retryAfter), " seconds.">>
      [] e.kind = "ValidationError" ->
            IF e.field # ""
            THEN <<"Validation error on field '", e.field, "': ", e.message>>
            ELSE <<"Validation error: ", e.message>>
      [] OTHER ->
            IF e.code # "" THEN <<"[", e.code, "] ", e.message>> ELSE <<e.message>>

\* TypeScript: the toString() an error object answers to, as the pieces the
\* template puts together
TsToString(e) ==
    CASE e.kind = "RateLimitError" ->
            <<e.message, ". Retry after ", NumText(e.retryAfter), " seconds.">>
      [] e.kind = "ValidationError" ->
            IF e.field # ""
            THEN <<"Validation error on field '", e.field, "': ", e.message>>
            ELSE <<"Validation error: ", e.message>>
      [] OTHER ->
            IF e.code # "" THEN <<"[", e.code, "] ", e.message>> ELSE <<e.message>>

\* the string the pieces make
RECURSIVE Text(_)
Text(parts) == IF parts = <<>> THEN "" ELSE Head(parts) \o Text(Tail(parts))

\* what a caller sees when it formats the error err of the SDK sdk
MkShown(sdk, err, parts) == [sdk |-> sdk, err |-> err, parts |-> parts, text |-> Text(parts)]
NoShown == MkShown("none", NoErr, <<>>)

----------------------------------------------------------------------------
(* Query strings and request headers *)

\* The strings a query carries are sequences of characters.

\* Go: strconv.Itoa(n); TypeScript: String(n) of an integer
RECURSIVE Itoa(_)
Itoa(n) ==
    IF n < 0 THEN <<"-">> \o Itoa(0 - n)
    ELSE IF n < 10 THEN <<CHOOSE ch \in Digits : DigitVal(ch) = n>>
    ELSE Itoa(n \div 10) \o <<CHOOSE ch \in Digits : DigitVal(ch) = n % 10>>

\* Go: strconv.FormatBool(b); TypeScript: String(b)
FormatBool(b) == IF b THEN <<"t", "r", "u", "e">> ELSE <<"f", "a", "l", "s", "e">>

\* TypeScript: a value of Record<string, string | number | boolean | undefined>
Undefined == [t |-> "undefined", s |-> <<>>, n |-> 0, b |-> FALSE]
PStr(s) == [t |-> "string", s |-> s, n |-> 0, b |-> FALSE]
PNum(n) == [t |-> "number", s |-> <<>>, n |-> n, b |-> FALSE]
PBool(b) == [t |-> "boolean", s |-> <<>>, n |-> 0, b |-> b]
Null == [t |-> "null", s |-> <<>>, n |-> 0, b |-> FALSE]

\* TypeScript: String(value)
StringOf(v) ==
    CASE v.t = "string" -> v.s
      [] v.t = "number" -> Itoa(v.n)
      [] v.t = "boolean" -> FormatBool(v.b)
      [] v.t = "null" -> <<"n", "u", "l", "l">>
      [] OTHER -> <<"u", "n", "d", "e", "f", "i", "n", "e", "d">>

\* TypeScript: the truthiness "if (value)" and "value || d" test
Truthy(v) ==
    CASE v.t = "string" -> v.s # <<>>
      [] v.t = "number" -> v.n # 0
      [] v.t = "boolean" -> v.b
      [] OTHER -> FALSE

\* TypeScript: value || d
OrValue(v, d) == IF Truthy(v) THEN v ELSE d

\* Go: url.QueryEscape; TypeScript: the urlencoded serializer of
\* URLSearchParams.  Letters, digits, "-", "_" and "." pass; a space
\* becomes "+"; the other characters drawn here are percent-encoded.
EscapeChar(ch) ==
    CASE ch = " " -> "+"
      [] ch = ":" -> "%3A"
      [] ch = "&" -> "%26"
      [] ch = "=" -> "%3D"
      [] ch = "/" -> "%2F"
      [] OTHER -> ch

RECURSIVE Escape(_)
Escape(s) == IF s = <<>> THEN "" ELSE EscapeChar(Head(s)) \o Escape(Tail(s))

\* the query string of the entries q, each a pair <<key, value>>
RECURSIVE RawQuery(_)
RawQuery(q) ==
    IF q = <<>> THEN ""
    ELSE q[1][1] \o "=" \o Escape(q[1][2])
         \o (IF Len(q) > 1 THEN "&" ELSE "") \o RawQuery(Tail(q))

\* Go: url.Values{}, a map from keys to values
NoValues == <<>>

\* Go: v.Set(key, value)
Set(v, key, value) == (key :> value) @@ v

\* the keys of the API's parameters, in the byte order Encode sorts by
SortedKeys ==
    <<"category", "device_id", "enabled", "format", "limit", "offset",
      "pattern_id", "platform", "since", "status", "type", "until">>

\* Go: params.Encode(): the entries sorted by key
Encode(v) ==
    LET keys == SelectSeq(SortedKeys, LAMBDA k : k \in DOMAIN v)
    IN  [i \in DOMAIN keys |-> <<keys[i], v[keys[i]]>>]

\* TypeScript: Object.entries(params).forEach(... if (value !== undefined)
\* url.searchParams.set(key, String(value))), the keys of params distinct
RECURSIVE SearchParams(_)
SearchParams(params) ==
    IF params = <<>> THEN <<>>
    ELSE IF params[1][2].t = "undefined" THEN SearchParams(Tail(params))
    ELSE <<<<params[1][1], StringOf(params[1][2])>>>> \o SearchParams(Tail(params))

\* the URL of a request: base URL, path and, when there are entries, "?"
\* and the query string
URL(base, path, q) ==
    base \o path \o (IF q = <<>> THEN "" ELSE "?" \o RawQuery(q))

\* the text of the base URLs that is no URL, and an id that is no escaped
\* path segment.  Go: url.Parse rejects a host with a space in it and a path
\* with "%" before anything but two hex digits, and takes text without a
\* scheme as a path.  TypeScript: new URL(path, base) throws for a base that
\* is no absolute URL.
SpaceInHost == "https://mesh example.test"
NoScheme == "not a url"
BadEscape == "%zz"

\* Go: what url.Parse(base + path) finds wrong, "" when it parses
GoParseError(base, path) ==
    IF base = SpaceInHost THEN "invalid character \" \" in host name"
    ELSE IF path \in {"/v1/events/" \o BadEscape, "/v1/devices/" \o BadEscape}
    THEN "invalid URL escape \"" \o BadEscape \o "\""
    ELSE ""

GoSchemeless(base) == base = NoScheme
JsInvalidURL(base) ==
    base \in {SpaceInHost, NoScheme} \cup {Inherited(m) : m \in ObjectMembers}

\* Go: u.String() escapes the spaces of a path
GoURLString(base) == IF base = NoScheme THEN "not%20a%20url" ELSE base

\* the scheme and host that base URLs start with, and the paths that follow
Origins == {endpoints[r] : r \in DOMAIN endpoints} \cup {"https://mesh.example.test"}
BasePaths == {"/", "/api"}

\* JavaScript: the origin of a base URL, the part new URL(path, base) keeps
\* when path starts with "/"
Origin(base) ==
    IF \E o \in Origins, bp \in BasePaths : base = o \o bp
    THEN CHOOSE o \in Origins : \E bp \in BasePaths : base = o \o bp
    ELSE base

\* TypeScript: new URL(path, base) with the entries q set on searchParams:
\* the absolute path replaces whatever path the base has
JsURL(path, base, q) == URL(Origin(base), path, q)

GoUserAgent == "meshlogic-go/0.1.0"
TsUserAgent == "meshlogic-typescript/0.1.0"

\* the headers of a client that numbers the requests it sends
NumberedHeaders(c) ==
    {<<"Authorization", "Bearer " \o c.apiKey>>,
     <<"Content-Type", "application/json">>,
     <<"User-Agent", IF c.sdk = "go" THEN GoUserAgent ELSE TsUserAgent>>,
     <<"X-Request-Number", ToString(netCalls)>>}

\* the headers request sets, in both SDKs
RequestHeaders(c) ==
    {<<"Authorization", "Bearer " \o c.apiKey>>,
     <<"Content-Type", "application/json">>,
     <<"User-Agent", IF c.sdk = "go" THEN GoUserAgent ELSE TsUserAgent>>}

\* TypeScript: the headers export hands to fetch
ExportHeaders(c) == {<<"Authorization", "Bearer " \o c.apiKey>>}

----------------------------------------------------------------------------
(* Resource methods: the arguments they hand to request *)

\* the arguments of a call to request, and how the method reads the result
\* ("json": decoded; "bytes": returned as it is)
MkReq(method, path, params, decode) ==
    [method |-> method, path |-> path, params |-> params, decode |-> decode,
     body |-> "none"]

\* the body argument of request: none (nil, undefined), a value that
\* serialises ("object"), one that does not ("circular": a cyclic object)
WithBody(r, body) == [r EXCEPT !.body = body]

\* a call of a method: its name (op) and its argument; ctx is the
\* context.Context a Go caller passes ("none" in TypeScript)
MkCall(op, args) == [op |-> op, args |-> args, ctx |-> "none"]

\* Go: the ctx argument of a method: nil, context.Background() or a context
\* the caller can cancel or has given a deadline ("live")
WithContext(c, ctx) == [c EXCEPT !.ctx = ctx]

\* Go: "if cond { v.Set(key, value) }"
SetIf(cond, v, key, value) == IF cond THEN Set(v, key, value) ELSE v

\* Go: a nil *Params argument
NilParams == [nil |-> TRUE]

\* Go: EventsService.List
GoEventsList(params) ==
    LET p  == IF params.nil
              THEN [EventType |-> <<>>, DeviceID |-> <<>>, Since |-> <<>>,
                    Until |-> <<>>, Limit |-> 0, Offset |-> 0]
              ELSE params
        v1 == SetIf(p.EventType # <<>>, NoValues, "type", p.EventType)
        v2 == SetIf(p.DeviceID # <<>>, v1, "device_id", p.DeviceID)
        v3 == SetIf(p.Since # <<>>, v2, "since", p.Since)
        v4 == SetIf(p.Until # <<>>, v3, "until", p.Until)
        v5 == Set(v4, "limit", IF p.Limit > 0 THEN Itoa(p.Limit) ELSE <<"1", "0", "0">>)
        v6 == SetIf(p.Offset > 0, v5, "offset", Itoa(p.Offset))
    IN  MkReq("GET", "/v1/events", v6, "json")

\* Go: EventsService.Get
GoEventsGet(eventID) == MkReq("GET", "/v1/events/" \o eventID, NoValues, "json")

\* Go: EventsService.Export
GoEventsExport(params) ==
    LET p  == IF params.nil
              THEN [Format |-> <<"j", "s", "o", "n">>, EventType |-> <<>>,
                    Since |-> <<>>, Until |-> <<>>]
              ELSE params
        v1 == Set(NoValues, "format", p.Format)
        v2 == SetIf(p.EventType # <<>>, v1, "type", p.EventType)
        v3 == SetIf(p.Since # <<>>, v2, "since", p.Since)
        v4 == SetIf(p.Until # <<>>, v3, "until", p.Until)
    IN  MkReq("GET", "/v1/events/export", v4, "bytes")

\* Go: DevicesService.List
GoDevicesList(params) ==
    LET p  == IF params.nil
              THEN [Status |-> <<>>, Platform |-> <<>>, Limit |-> 0, Offset |-> 0]
              ELSE params
        v1 == SetIf(p.Status # <<>>, NoValues, "status", p.Status)
        v2 == SetIf(p.Platform # <<>>, v1, "platform", p.Platform)
        v3 == Set(v2, "limit", IF p.Limit > 0 THEN Itoa(p.Limit) ELSE <<"1", "0", "0">>)
        v4 == SetIf(p.Offset > 0, v3, "offset", Itoa(p.Offset))
    IN  MkReq("GET", "/v1/devices", v4, "json")

\* Go: DevicesService.Get
GoDevicesGet(deviceID) == MkReq("GET", "/v1/devices/" \o deviceID, NoValues, "json")

\* Go: DevicesService.Status
GoDevicesStatus == MkReq("GET", "/v1/devices/status", NoValues, "json")

\* Go: PatternsService.List; Enabled is a *bool: "nil", "true" or "false"
GoPatternsList(params) ==
    LET p  == IF params.nil THEN [Category |-> <<>>, Enabled |-> "nil"] ELSE params
        v1 == SetIf(p.Category # <<>>, NoValues, "category", p.Category)
        v2 == SetIf(p.Enabled # "nil", v1, "enabled", FormatBool(p.Enabled = "true"))
    IN  MkReq("GET", "/v1/patterns", v2, "json")

\* Go: PatternsService.Matches
GoPatternsMatches(params) ==
    LET p  == IF params.nil
              THEN [PatternID |-> <<>>, DeviceID |-> <<>>, Since |-> <<>>, Limit |-> 0]
              ELSE params
        v1 == SetIf(p.PatternID # <<>>, NoValues, "pattern_id", p.PatternID)
        v2 == SetIf(p.DeviceID # <<>>, v1, "device_id", p.DeviceID)
        v3 == SetIf(p.Since # <<>>, v2, "since", p.Since)
        v4 == Set(v3, "limit", IF p.Limit > 0 THEN Itoa(p.Limit) ELSE <<"1", "0", "0">>)
    IN  MkReq("GET", "/v1/patterns/matches", v4, "json")

\* TypeScript: EventsResource.list
TsEventsList(params) ==
    MkReq("GET", "/v1/events",
          <<<<"type", params.eventType>>, <<"device_id", params.deviceId>>,
            <<"since", params.since>>, <<"until", params.until>>,
            <<"limit", OrValue(params.limit, PNum(100))>>,
            <<"offset", OrValue(params.offset, PNum(0))>>>>, "json")

\* TypeScript: EventsResource.get
TsEventsGet(eventId) == MkReq("GET", "/v1/events/" \o eventId, <<>>, "json")

\* TypeScript: "if (value) url.searchParams.set(key, value)"
AppendIf(cond, q, key, value) ==
    IF cond THEN Append(q, <<key, StringOf(value)>>) ELSE q

\* TypeScript: EventsResource.export up to its own fetch: the entries of
\* the URL it builds itself
TsEventsExport(params) ==
    LET q1 == AppendIf(Truthy(params.format), <<>>, "format", params.format)
        q2 == AppendIf(Truthy(params.eventType), q1, "type", params.eventType)
        q3 == AppendIf(Truthy(params.since), q2, "since", params.since)
        q4 == AppendIf(Truthy(params.until), q3, "until", params.until)
    IN  MkReq("GET", "/v1/events/export", q4, "blob")

\* TypeScript: DevicesResource.list
TsDevicesList(params) ==
    MkReq("GET", "/v1/devices",
          <<<<"status", params.status>>, <<"platform", params.platform>>,
            <<"limit", OrValue(params.limit, PNum(100))>>,
            <<"offset", OrValue(params.offset, PNum(0))>>>>, "json")

\* TypeScript: DevicesResource.get
TsDevicesGet(deviceId) == MkReq("GET", "/v1/devices/" \o deviceId, <<>>, "json")

\* TypeScript: DevicesResource.status
TsDevicesStatus == MkReq("GET", "/v1/devices/status", <<>>, "json")

\* TypeScript: PatternsResource.list
TsPatternsList(params) ==
    MkReq("GET", "/v1/patterns",
          <<<<"category", params.category>>, <<"enabled", params.enabled>>>>, "json")

\* TypeScript: PatternsResource.matches
TsPatternsMatches(params) ==
    MkReq("GET", "/v1/patterns/matches",
          <<<<"pattern_id", params.patternId>>, <<"device_id", params.deviceId>>,
            <<"since", params.since>>,
            <<"limit", OrValue(params.limit, PNum(100))>>>>, "json")

\* the HTTP request put on the wire
MkWire(url, query, headers) == [url |-> url, query |-> query, headers |-> headers]
NoWire == MkWire("", <<>>, {})

\* Go: the request Client.request sends for the arguments r
GoWire(c, r) ==
    MkWire(URL(GoURLString(c.baseURL), r.path, Encode(r.params)), Encode(r.params),
           RequestHeaders(c))

\* TypeScript: the request MeshLogicClient.request sends for the arguments r
TsWire(c, r) ==
    MkWire(JsURL(r.path, c.baseURL, SearchParams(r.params)), SearchParams(r.params),
           RequestHeaders(c))

\* TypeScript: the request EventsResource.export sends
TsExportWire(c, r) ==
    MkWire(JsURL(r.path, c.baseURL, r.params), r.params, ExportHeaders(c))

----------------------------------------------------------------------------
(* Inputs *)

ApiKeys == {"key-A"}
EnvKeys == {"", "key-env"}
Regions == {"us-east-1", "mars-1", "constructor"}
BaseURLs == {"https://mesh.example.test", "https://mesh.example.test/api"}
TimeoutsMs == {0, 10}
SharedTimeoutsMs == {0, 5000}

Options ==
    {WithAPIKey(k) : k \in ApiKeys} \cup {WithRegion(r) : r \in Regions}
    \cup {WithBaseURL(u) : u \in BaseURLs} \cup {WithTimeout(d) : d \in TimeoutsMs}
    \cup {WithHTTPClient}

RECURSIVE SeqsUpTo(_, _)
SeqsUpTo(S, n) ==
    IF n = 0 THEN {<<>>}
    ELSE LET shorter == SeqsUpTo(S, n - 1)
         IN  shorter \cup {Append(q, x) : q \in shorter, x \in S}

OptLists == SeqsUpTo(Options, MaxOpts)

MkConfig(apiKey, region, baseUrl, timeout) ==
    [apiKey |-> apiKey, region |-> region, baseUrl |-> baseUrl, timeout |-> timeout]

NoConfig == MkConfig(Unset, Unset, Unset, Unset)

Configs ==
    {MkConfig(k, r, u, t) :
        k \in {Unset, SetStr("")} \cup {SetStr(x) : x \in ApiKeys},
        r \in {Unset} \cup {SetStr(x) : x \in Regions},
        u \in {Unset} \cup {SetStr(x) : x \in BaseURLs},
        t \in {Unset} \cup {SetNum(x) : x \in TimeoutsMs}}

Paths == {"/v1/devices/xyz", "/v1/events"}

Statuses == {200, 204, 304, 400, 401, 403, 404, 429, 500}

RetryAfterHeaders ==
    {NoHeader, Header(<<>>), Header(<<"1", "2", "0">>), Header(<<"-", "5">>),
     Header(<<"1", "2", "s">>), Header(<<"s", "o", "o", "n">>),
     Header(<<"W", "e", "d", ",", " ", "2", "1", " ", "O", "c", "t">>)}

Fields(strings) == {Absent, JNull} \cup {Str(x) : x \in strings}

Bodies ==
    {EmptyBody, TextBody("Bad Gateway"), NullBody, ArrayBody}
    \cup {ObjectBody(c, m) : c \in Fields({"", "E_QUOTA"}),
                             m \in Fields({"", "quota exceeded"})}
    \cup {FieldBody(Str("E_INVALID"), Str("limit too large"), Str("limit"))}

FailureDescriptions == {"dial tcp: connection refused", "no such host"}

\* the failures of the transport: what Do reports, what fetch rejects with
Rejections ==
    {[kind |-> "TypeError", desc |-> d] : d \in FailureDescriptions \cup {""}}
    \cup {[kind |-> "Error", desc |-> "boom"]}

\* Go: the ctx argument of a call, and how a live one ends
Contexts == {"nil", "background", "live"}
ContextEnds == {"canceled", "deadline exceeded"}

\* TypeScript: the arguments of direct calls of request
TsRequestArgs(method, path, params, body) ==
    [method |-> method, path |-> path, params |-> params, body |-> body]

TsRequests ==
    {TsRequestArgs("GET", path, <<>>, "none") : path \in Paths}
    \cup {TsRequestArgs("GET", "/v1/devices",
                        <<<<"limit", Undefined>>, <<"status", PStr(<<>>)>>,
                          <<"platform", Null>>>>, "none"),
          TsRequestArgs("POST", "/v1/events", <<>>, "object"),
          TsRequestArgs("POST", "/v1/events", <<>>, "circular"),
          TsRequestArgs("GET", "/v1/events", <<>>, "object")}

\* Go: the options the program applies to the client it is using
LiveOptions == {WithBaseURL("https://mesh.example.test"), WithTimeout(0)}

\* the constructions whose clients the requests run on
GoSetups == {<<WithAPIKey("key-A")>>, <<WithAPIKey("key-A"), WithTimeout(10)>>,
             <<WithAPIKey("key-A"), WithHTTPClient>>,
             <<WithAPIKey("key-A"), WithBaseURL(SpaceInHost)>>,
             <<WithAPIKey("key-A"), WithBaseURL(NoScheme)>>}

\* the constructions of other Go clients while the client is in use
OtherSetups == {<<WithAPIKey("key-A"), WithTimeout(10)>>,
                <<WithAPIKey("key-A"), WithHTTPClient, WithTimeout(10)>>,
                <<WithAPIKey("key-A"), WithHTTPClient, WithTimeout(0)>>}
TsSetups == {MkConfig(SetStr("key-A"), Unset, Unset, Unset),
             MkConfig(SetStr("key-A"), Unset, Unset, SetNum(10)),
             MkConfig(SetStr("key-A"), Unset, SetStr("https://mesh.example.test/api"),
                      Unset),
             MkConfig(SetStr("key-A"), Unset, SetStr("https://mesh.example.test/"),
                      SetNum(10)),
             MkConfig(SetStr("key-A"), SetStr("constructor"), Unset, Unset),
             MkConfig(SetStr("key-A"), Unset, SetStr(NoScheme), Unset)}

\* the values of the methods' string parameters
Online == <<"o", "n">>
Since == <<"0", "9", ":", "3", "0">>
Csv == <<"c", "s", "v">>

\* the calls of the Go services' methods
GoCalls ==
    {MkCall("events.list", NilParams),
     MkCall("events.list", [nil |-> FALSE, EventType |-> Online, DeviceID |-> <<>>,
                            Since |-> Since, Until |-> <<>>, Limit |-> 5,
                            Offset |-> 0]),
     MkCall("events.get", "xyz"),
     MkCall("events.get", BadEscape),
     MkCall("events.export", NilParams),
     MkCall("events.export", [nil |-> FALSE, Format |-> Csv, EventType |-> <<>>,
                              Since |-> <<>>, Until |-> <<>>]),
     MkCall("events.export", [nil |-> FALSE, Format |-> <<>>, EventType |-> <<>>,
                              Since |-> Since, Until |-> <<>>]),
     MkCall("devices.list", NilParams),
     MkCall("devices.list", [nil |-> FALSE, Status |-> Online, Platform |-> <<>>,
                             Limit |-> 0, Offset |-> 20]),
     MkCall("devices.get", "xyz"),
     MkCall("devices.status", <<>>),
     MkCall("patterns.list", NilParams),
     MkCall("patterns.list", [nil |-> FALSE, Category |-> <<>>, Enabled |-> "false"]),
     MkCall("patterns.matches", [nil |-> FALSE, PatternID |-> Online,
                                 DeviceID |-> <<>>, Since |-> <<>>, Limit |-> 0])}

\* the calls of the TypeScript resources' methods that go through request
TsCalls ==
    {MkCall("events.list", [eventType |-> Undefined, deviceId |-> Undefined,
                            since |-> Undefined, until |-> Undefined,
                            limit |-> Undefined, offset |-> Undefined]),
     MkCall("events.list", [eventType |-> PStr(Online), deviceId |-> Undefined,
                            since |-> PStr(Since), until |-> Undefined,
                            limit |-> PNum(5), offset |-> Undefined]),
     MkCall("events.list", [eventType |-> PStr(<<>>), deviceId |-> Undefined,
                            since |-> Undefined, until |-> Undefined,
                            limit |-> Undefined, offset |-> Undefined]),
     MkCall("events.get", "xyz"),
     MkCall("devices.list", [status |-> PStr(Online), platform |-> Undefined,
                             limit |-> PNum(0), offset |-> PNum(20)]),
     MkCall("devices.get", "xyz"),
     MkCall("devices.status", <<>>),
     MkCall("patterns.list", [category |-> Undefined, enabled |-> PBool(FALSE)]),
     MkCall("patterns.list", [category |-> Undefined, enabled |-> Undefined]),
     MkCall("patterns.matches", [patternId |-> PStr(Online), deviceId |-> Undefined,
                                 since |-> Undefined, limit |-> Undefined])}

\* the arguments of the TypeScript export
TsExports ==
    {[format |-> Undefined, eventType |-> Undefined, since |-> Undefined,
      until |-> Undefined],
     [format |-> PStr(Csv), eventType |-> PStr(<<>>), since |-> PStr(Since),
      until |-> Undefined]}

\* the answers the methods' requests get
ApiHeaders == {NoHeader, Header(<<"1", "2", "0">>)}
ApiBodies == {EmptyBody, ArrayBody, ObjectBody(Str("E_QUOTA"), Str("quota exceeded"))}

\* the error values a caller formats
Codes == {"", "E_QUOTA"}
Messages == {"", "quota exceeded"}
Delays == {Num(0), Num(60), Num(-5)}
FieldNames == {"", "limit"}

GoErrors ==
    {GoError(c, m, 500) : c \in Codes, m \in Messages}
    \cup {GoAuthenticationError(GoError(c, m, 401)) : c \in Codes, m \in Messages}
    \cup {GoNotFoundError(GoError(c, m, 404)) : c \in Codes, m \in Messages}
    \cup {GoRateLimitError(GoError(c, m, 429), d) :
             c \in Codes, m \in Messages, d \in Delays}
    \cup {GoValidationError(GoError(c, m, 400), f) :
             c \in Codes, m \in Messages, f \in FieldNames}

TsErrors ==
    {MeshLogicError(m, c, 500) : c \in Codes, m \in Messages}
    \cup {TsAuthenticationError(m) : m \in Messages}
    \cup {TsNotFoundError(m) : m \in Messages}
    \cup {TsRateLimitError(m, d) : m \in Messages, d \in Delays \cup {NaN}}
    \cup {TsValidationError(m, f) : m \in Messages, f \in FieldNames}

\* the calls made twice and the answers they get
TwiceGoCalls == {c \in GoCalls : c.op = "patterns.list"}
TwiceTsCalls == {c \in TsCalls : c.op = "patterns.list"}
TwiceStatuses == {200, 404, 429}
TwiceBodies == {EmptyBody, ObjectBody(Str("E_QUOTA"), Str("quota exceeded"))}

----------------------------------------------------------------------------
(* State *)

MkNewIn(sdk, opts, config) == [sdk |-> sdk, opts |-> opts, config |-> config]
NoNewIn == MkNewIn("none", <<>>, NoConfig)
MkNewOut(c, err) == [client |-> c, err |-> err]
NoNewOut == MkNewOut(NoClient, NoErr)

NoReq == MkReq("", "", <<>>, "")
NoCall == MkCall("", <<>>)

\* a call that has ended, as its caller kept it
MkPrev(c, w, rs, el, r) ==
    [call |-> c, wire |-> w, resp |-> rs, elapsed |-> el, result |-> r]
NoPrev == MkPrev(NoCall, NoWire, NoResp, FALSE, NoResult)

CallIdle ==
    /\ pc = "idle"
    /\ call = NoCall
    /\ req = NoReq
    /\ wire = NoWire
    /\ shown = NoShown
    /\ prev = NoPrev
    /\ resp = NoResp
    /\ timer = FALSE
    /\ elapsed = FALSE
    /\ result = NoResult
    /\ sent = 0
    /\ bodyOpen = FALSE

\* a client built by the Go NewClient or by the TypeScript constructor, and
\* no call made yet
Init ==
    /\ env = ""
    /\ sharedHttp = 0
    /\ \/ \E opts \in GoSetups :
            /\ newIn = MkNewIn("go", opts, NoConfig)
            /\ newOut = MkNewOut(NewClient(opts, env, sharedHttp).client,
                                 NewClient(opts, env, sharedHttp).err)
       \/ \E config \in TsSetups :
            /\ newIn = MkNewIn("ts", <<>>, config)
            /\ newOut = MkNewOut(MeshLogicClient(config, env).client,
                                 MeshLogicClient(config, env).err)
    /\ client = newOut.client
    /\ CallIdle
    /\ netCalls = 0

\* nothing constructed yet
InitNew ==
    /\ env \in EnvKeys
    /\ sharedHttp \in SharedTimeoutsMs
    /\ newIn = NoNewIn
    /\ newOut = NoNewOut
    /\ client = NoClient
    /\ CallIdle
    /\ netCalls = 0

reqVars == <<call, req, wire, shown, prev>>
callVars == <<pc, reqVars, resp, timer, elapsed, result, netCalls, sent, bodyOpen>>
newVars == <<env, sharedHttp, newIn, newOut, client>>

----------------------------------------------------------------------------
(* Construction steps *)

\* Go: c, err := meshlogic.NewClient(opts...)
GoNewClient(opts) ==
    LET r == NewClient(opts, env, sharedHttp)
    IN  /\ newIn = NoNewIn
        /\ newIn' = MkNewIn("go", opts, NoConfig)
        /\ newOut' = MkNewOut(r.client, r.err)
        /\ sharedHttp' = r.shared
        /\ client' = r.client
        /\ UNCHANGED <<env, callVars>>

\* TypeScript: new MeshLogicClient(config)
TsNewClient(config) ==
    LET r == MeshLogicClient(config, env)
    IN  /\ newIn = NoNewIn
        /\ newIn' = MkNewIn("ts", <<>>, config)
        /\ newOut' = MkNewOut(r.client, r.err)
        /\ client' = r.client
        /\ UNCHANGED <<env, sharedHttp, callVars>>

NextNew ==
    \/ \E opts \in OptLists : GoNewClient(opts)
    \/ \E config \in Configs : TsNewClient(config)

SpecNew == InitNew /\ [][NextNew]_vars

----------------------------------------------------------------------------
(* Request steps *)

\* a client that sends a failed request once more
RetryOnFailure(r) == ~r.ok /\ sent = 1

\* a client that leaves the response body open
CloseMissing(open) == open

\* request calls Do (Go) or fetch (TypeScript) once and outside any loop:
\* no outcome r of the attempt starts another one
Retries(r) == FALSE

\* Go: the timer of http.Client runs only for a Timeout above zero.
\* TypeScript: setTimeout(() => controller.abort(), this.timeout)
SetTimeout(c, shared) == IF c.sdk = "go" THEN Timeout(c, shared) > 0 ELSE TRUE

\* TypeScript: clearTimeout(timeoutId) after fetch and in the catch clause.
\* Go: http.Client stops its timer when Do fails and when the body is closed.
ClearTimeout(t) == FALSE

\* Go: defer resp.Body.Close().  TypeScript: response.json() consumes the
\* body or hands it to the caller's promise.
Close(open) == FALSE

\* The attempt has ended with outcome r, the response seen so far being rs:
\* the call returns or throws r.
Finish(r, rs) ==
    IF Retries(r)
    THEN /\ pc' = "fetch"
         /\ resp' = NoResp
         /\ result' = NoResult
         /\ timer' = SetTimeout(client, sharedHttp)
         /\ bodyOpen' = Close(bodyOpen)
         /\ sent' = sent + 1
         /\ netCalls' = netCalls + 1
    ELSE /\ pc' = "done"
         /\ resp' = rs
         /\ result' = r
         /\ timer' = ClearTimeout(timer)
         /\ bodyOpen' = Close(bodyOpen)
         /\ UNCHANGED <<sent, netCalls>>

\* Go: what request returns before it sends anything, NoResult when it gets
\* as far as the network: the error of url.Parse, of json.Marshal, of
\* http.NewRequestWithContext, or of Do for a URL without a scheme
GoEarly(c, r, ctx) ==
    IF GoParseError(c.baseURL, r.path) # ""
    THEN Failure(GoForeignError("url.Error",
                    "parse \"" \o c.baseURL \o r.path \o "\": "
                    \o GoParseError(c.baseURL, r.path)))
    ELSE IF r.body = "circular"
    THEN Failure(GoForeignError("json.UnsupportedValueError",
                                "json: unsupported value: encountered a cycle"))
    ELSE IF ctx = "nil"
    THEN Failure(GoForeignError("errors.errorString", "net/http: nil Context"))
    ELSE IF GoSchemeless(c.baseURL)
    THEN Failure(GoDoError(c, GoWire(c, r), "unsupported protocol scheme \"\""))
    ELSE NoResult

\* TypeScript: what request throws before fetch sends anything, NoResult
\* when fetch is on its way.  new URL throws outside the try; JSON.stringify
\* and fetch's check of its arguments throw inside it, to the catch clause.
TsEarly(c, r) ==
    IF JsInvalidURL(c.baseURL)
    THEN Failure(TsForeignError("TypeError", "Invalid URL"))
    ELSE IF r.body = "circular"
    THEN Failure(TsCatch(TsForeignError("TypeError",
                                        "Converting circular structure to JSON")))
    ELSE IF r.body # "none" /\ r.method \in {"GET", "HEAD"}
    THEN Failure(TsCatch(TsForeignError("TypeError",
                            "Request with GET/HEAD method cannot have body.")))
    ELSE NoResult

\* TypeScript: what export throws before its fetch: new URL on the base URL
TsExportEarly(c) ==
    IF JsInvalidURL(c.baseURL)
    THEN Failure(TsForeignError("TypeError", "Invalid URL"))
    ELSE NoResult

\* A call c starts with the arguments r.  When the code ends it before the
\* network (early is its outcome) the call is over with nothing sent and no
\* timer left: none was set, or the catch clause has cleared it.  Otherwise
\* the HTTP request w is on its way, the timer t is set and the call waits
\* at the point at.
Send(c, r, w, early, at, t) ==
    /\ pc = "idle"
    /\ netCalls < MaxCalls
    /\ call' = c
    /\ req' = r
    /\ shown' = NoShown
    /\ UNCHANGED prev
    /\ resp' = NoResp
    /\ elapsed' = FALSE
    /\ bodyOpen' = FALSE
    /\ IF early = NoResult
       THEN /\ pc' = at
            /\ wire' = w
            /\ result' = NoResult
            /\ netCalls' = netCalls + 1
            /\ sent' = 1
            /\ timer' = t
       ELSE /\ pc' = "done"
            /\ wire' = NoWire
            /\ result' = early
            /\ sent' = 0
            /\ timer' = FALSE
            /\ UNCHANGED netCalls
    /\ UNCHANGED newVars

\* Go: Client.request up to c.httpClient.Do(req): the request is on its
\* way, or request has returned an error before sending it.
GoRequest(path, ctx) ==
    LET r == MkReq("GET", path, NoValues, "bytes")
    IN  /\ client.sdk = "go"
        /\ Send(WithContext(MkCall("request", path), ctx), r, GoWire(client, r),
                GoEarly(client, r, ctx), "fetch", SetTimeout(client, sharedHttp))

\* TypeScript: request(method, path, params, body) up to "await fetch(...)":
\* new URL, setTimeout, then fetch, or the exception thrown before it
TsRequest(a) ==
    LET r == WithBody(MkReq(a.method, a.path, a.params, "json"), a.body)
    IN  /\ client.sdk = "ts"
        /\ Send(MkCall("request", a), r, TsWire(client, r),
                TsEarly(client, r), "fetch", SetTimeout(client, sharedHttp))

\* Go: the arguments the method of call c hands to request
GoMethod(c) ==
    CASE c.op = "events.list" -> GoEventsList(c.args)
      [] c.op = "events.get" -> GoEventsGet(c.args)
      [] c.op = "events.export" -> GoEventsExport(c.args)
      [] c.op = "devices.list" -> GoDevicesList(c.args)
      [] c.op = "devices.get" -> GoDevicesGet(c.args)
      [] c.op = "devices.status" -> GoDevicesStatus
      [] c.op = "patterns.list" -> GoPatternsList(c.args)
      [] c.op = "patterns.matches" -> GoPatternsMatches(c.args)

\* TypeScript: the arguments the method of call c hands to request
TsMethod(c) ==
    CASE c.op = "events.list" -> TsEventsList(c.args)
      [] c.op = "events.get" -> TsEventsGet(c.args)
      [] c.op = "devices.list" -> TsDevicesList(c.args)
      [] c.op = "devices.get" -> TsDevicesGet(c.args)
      [] c.op = "devices.status" -> TsDevicesStatus
      [] c.op = "patterns.list" -> TsPatternsList(c.args)
      [] c.op = "patterns.matches" -> TsPatternsMatches(c.args)

\* Go: a method of a service, up to Do inside the request it calls
GoCall(c, ctx) ==
    /\ client.sdk = "go"
    /\ Send(WithContext(c, ctx), GoMethod(c), GoWire(client, GoMethod(c)),
            GoEarly(client, GoMethod(c), ctx), "fetch",
            SetTimeout(client, sharedHttp))

\* TypeScript: a method of a resource other than export, up to the fetch
\* inside the request it calls
TsCall(c) ==
    /\ client.sdk = "ts"
    /\ Send(c, TsMethod(c), TsWire(client, TsMethod(c)),
            TsEarly(client, TsMethod(c)), "fetch", SetTimeout(client, sharedHttp))

\* TypeScript: EventsResource.export up to "await fetch(...)": its own URL
\* and fetch, no AbortController and no timer
TsExport(params) ==
    /\ client.sdk = "ts"
    /\ Send(MkCall("events.export", params), TsEventsExport(params),
            TsExportWire(client, TsEventsExport(params)),
            TsExportEarly(client), "export", FALSE)

\* TypeScript: export's fetch resolves with the status line and the headers.
\* "if (!response.ok) throw ...": the call ends and the body is never read.
\* Otherwise "return response.blob()": the call waits for the body.
TsExportAnswered(status, retryAfter) ==
    /\ pc = "export"
    /\ resp' = MkResp(status, retryAfter, EmptyBody, FALSE, "")
    /\ bodyOpen' = TRUE
    /\ IF TsResponseOk(status)
       THEN /\ pc' = "blob"
            /\ UNCHANGED result
       ELSE /\ pc' = "done"
            /\ result' = Failure(MeshLogicError("Export failed", "EXPORT_ERROR",
                                                status))
    /\ UNCHANGED <<newVars, reqVars, elapsed, timer, sent, netCalls>>

\* TypeScript: the promise of response.blob() resolves with the whole body b
TsExportBlob(b) ==
    /\ pc = "blob"
    /\ Finish(MkResult(TRUE, Raw(b), EmptyBody, NoErr),
              [resp EXCEPT !.body = b, !.complete = TRUE])
    /\ UNCHANGED <<newVars, reqVars, elapsed>>

\* TypeScript: the connection breaks while blob() reads the body; nothing
\* catches the TypeError
TsExportBlobFails ==
    /\ pc = "blob"
    /\ Finish(Failure(TsForeignError("TypeError", "terminated")), resp)
    /\ UNCHANGED <<newVars, reqVars, elapsed>>

\* TypeScript: export's fetch rejects with the exception f; nothing catches
\* it
TsExportFails(f) ==
    /\ pc = "export"
    /\ Finish(Failure(TsForeignError(f.kind, f.desc)),
              [resp EXCEPT !.transport = f.desc])
    /\ UNCHANGED <<newVars, reqVars, elapsed>>

\* Go: what the method returns for the outcome r of request on body b: the
\* error of request, the bytes (Export), or the outcome of json.Unmarshal
GoReturn(r, b) ==
    IF r.ok /\ req.decode = "json" /\ ~GoUnmarshalError(b).ok
    THEN Failure(IF b.t = "array"
                 THEN GoForeignError("json.UnmarshalTypeError",
                                     "json: cannot unmarshal array into Go value")
                 ELSE GoForeignError("json.SyntaxError",
                                     IF b.t = "empty" THEN "unexpected end of JSON input"
                                     ELSE "invalid character looking for beginning of value"))
    ELSE r

\* The status line and the headers arrive.  Go: Do returns resp, ReadAll
\* starts, the client's timer keeps running.  TypeScript: fetch resolves and
\* clearTimeout(timeoutId) runs before the body is read.
ResponseHeaders(status, retryAfter) ==
    /\ pc = "fetch"
    /\ pc' = "body"
    /\ resp' = MkResp(status, retryAfter, EmptyBody, FALSE, "")
    /\ timer' = IF client.sdk = "ts" THEN ClearTimeout(timer) ELSE timer
    /\ bodyOpen' = TRUE
    /\ UNCHANGED <<newVars, reqVars, elapsed, result, netCalls, sent>>

\* The body arrives whole: the call returns or throws.
BodyComplete(b) ==
    /\ pc = "body"
    /\ Finish(IF client.sdk = "go"
              THEN GoReturn(GoHandleResponse(resp.status, resp.retryAfter, b), b)
              ELSE TsHandleResponse(resp.status, resp.retryAfter, b, req.path),
              [resp EXCEPT !.body = b, !.complete = TRUE])
    /\ UNCHANGED <<newVars, reqVars, elapsed>>

\* The connection breaks while the body is read.  Go: io.ReadAll returns
\* the error, which request returns.  TypeScript: response.json() rejects.
BodyFails ==
    /\ pc = "body"
    /\ Finish(IF client.sdk = "go"
              THEN Failure(GoForeignError("errors.errorString", "unexpected EOF"))
              ELSE TsHandleBodyFailure(resp.status, resp.retryAfter,
                                       TsForeignError("TypeError", "terminated"),
                                       req.path),
              resp)
    /\ UNCHANGED <<newVars, reqVars, elapsed>>

\* The transport fails before any response, f being the failure.  Go: Do
\* returns a *url.Error around its description, which request returns.
\* TypeScript: fetch rejects with an exception of that kind (a TypeError
\* from the platform's fetch), which the catch clause wraps.
TransportFails(f) ==
    /\ pc = "fetch"
    /\ Finish(IF client.sdk = "go"
              THEN Failure(GoDoError(client, wire, f.desc))
              ELSE Failure(TsCatch(TsForeignError(f.kind, f.desc))),
              [resp EXCEPT !.transport = f.desc])
    /\ UNCHANGED <<newVars, reqVars, elapsed>>

\* Go: the ctx of the call is cancelled or reaches its deadline while the
\* call is in flight, whatever the client's Timeout: Do returns a
\* *url.Error around ctx.Err(), ReadAll returns ctx.Err().
GoContextDone(reason) ==
    /\ client.sdk = "go"
    /\ pc \in {"fetch", "body"}
    /\ call.ctx = "live"
    /\ call' = WithContext(call, reason)
    /\ Finish(Failure(IF pc = "fetch"
                      THEN GoDoError(client, wire, "context " \o reason)
                      ELSE GoForeignError("context.Err", "context " \o reason)),
              resp)
    /\ UNCHANGED <<newVars, req, wire, shown, prev, elapsed>>

\* The timeout elapses while the call is in flight: the one the call's
\* timer was set with when the call started (Go: Do fixes its deadline from
\* the Timeout it reads at its start, and a later write of Timeout does not
\* touch it), or, with no timer scheduled, the one the client is configured
\* with now.  A timer still scheduled fires: Go cancels the request, and Do
\* or ReadAll returns the error; TypeScript aborts the fetch, which rejects
\* with an AbortError.  With no timer scheduled nothing happens to the call.
TimeoutElapses ==
    /\ pc \in {"fetch", "body"}
    /\ ~elapsed
    /\ timer \/ Timeout(client, sharedHttp) > 0
    /\ elapsed' = TRUE
    /\ IF timer
       THEN Finish(IF client.sdk = "go"
                   THEN IF pc = "fetch"
                        THEN Failure(GoDoError(client, wire,
                               "context deadline exceeded (Client.Timeout exceeded while awaiting headers)"))
                        ELSE Failure(GoForeignError("http.httpError",
                               "context deadline exceeded (Client.Timeout or context cancellation while reading body)"))
                   ELSE Failure(TsCatch(TsForeignError("AbortError",
                                                       "This operation was aborted"))),
                   resp)
       ELSE UNCHANGED <<pc, resp, timer, result, sent, netCalls, bodyOpen>>
    /\ UNCHANGED <<newVars, reqVars>>

\* Go: the program builds another client, other, _ := NewClient(opts...),
\* at any moment of the client's life.  WithHTTPClient hands it the same
\* caller-owned http.Client, through which WithTimeout writes.
GoNewOtherClient(opts) ==
    /\ client.sdk = "go"
    /\ sharedHttp' = NewClient(opts, env, sharedHttp).shared
    /\ UNCHANGED <<env, newIn, newOut, client, callVars>>

\* Go: the program applies an option to the client it already has, opt(c):
\* ClientOption is an exported func(*Client), and each option writes the
\* fields of whatever client it is given.
GoApplyOption(o) ==
    LET st == ApplyOpt([c |-> client, shared |-> sharedHttp], o)
    IN  /\ client.sdk = "go"
        /\ client' = st.c
        /\ sharedHttp' = st.shared
        /\ UNCHANGED <<env, newIn, newOut, callVars>>

\* The caller has the outcome; the client is ready for the next call.
Return ==
    /\ pc = "done"
    /\ pc' = "idle"
    /\ call' = NoCall
    /\ req' = NoReq
    /\ wire' = NoWire
    /\ UNCHANGED <<shown, prev>>
    /\ resp' = NoResp
    /\ elapsed' = FALSE
    /\ result' = NoResult
    /\ sent' = 0
    /\ bodyOpen' = FALSE
    /\ UNCHANGED <<newVars, timer, netCalls>>

Next ==
    \/ \E path \in Paths, ctx \in Contexts : GoRequest(path, ctx)
    \/ \E a \in TsRequests : TsRequest(a)
    \/ \E status \in Statuses, h \in RetryAfterHeaders : ResponseHeaders(status, h)
    \/ \E b \in Bodies : BodyComplete(b)
    \/ BodyFails
    \/ \E f \in Rejections : TransportFails(f)
    \/ \E reason \in ContextEnds : GoContextDone(reason)
    \/ TimeoutElapses
    \/ \E opts \in OtherSetups : GoNewOtherClient(opts)
    \/ \E o \in LiveOptions : GoApplyOption(o)
    \/ Return

Spec == Init /\ [][Next]_vars

\* the calls of the resource methods
NextApi ==
    \/ \E c \in GoCalls, ctx \in Contexts : GoCall(c, ctx)
    \/ \E c \in TsCalls : TsCall(c)
    \/ \E params \in TsExports : TsExport(params)
    \/ \E status \in Statuses, h \in ApiHeaders : ResponseHeaders(status, h)
    \/ \E b \in ApiBodies : BodyComplete(b)
    \/ BodyFails
    \/ \E f \in Rejections : TransportFails(f)
    \/ \E reason \in ContextEnds : GoContextDone(reason)
    \/ TimeoutElapses
    \/ \E status \in Statuses, h \in ApiHeaders : TsExportAnswered(status, h)
    \/ \E b \in ApiBodies : TsExportBlob(b)
    \/ TsExportBlobFails
    \/ \E f \in Rejections : TsExportFails(f)
    \/ Return

SpecApi == Init /\ [][NextApi]_vars

----------------------------------------------------------------------------
(* The same call twice *)

\* The caller has the outcome and keeps it, with the request that went out
\* and the answer that came back, to compare the next call with.
ReturnKept ==
    /\ pc = "done"
    /\ prev' = MkPrev(call, wire, resp, elapsed, result)
    /\ pc' = "idle"
    /\ call' = NoCall
    /\ req' = NoReq
    /\ wire' = NoWire
    /\ resp' = NoResp
    /\ elapsed' = FALSE
    /\ result' = NoResult
    /\ sent' = 0
    /\ bodyOpen' = FALSE
    /\ UNCHANGED <<newVars, shown, timer, netCalls>>

NextTwice ==
    \/ \E path \in Paths, ctx \in Contexts : GoRequest(path, ctx)
    \/ \E a \in TsRequests : TsRequest(a)
    \/ \E c \in TwiceGoCalls, ctx \in Contexts : GoCall(c, ctx)
    \/ \E c \in TwiceTsCalls : TsCall(c)
    \/ \E status \in TwiceStatuses, h \in ApiHeaders : ResponseHeaders(status, h)
    \/ \E b \in TwiceBodies : BodyComplete(b)
    \/ BodyFails
    \/ \E f \in Rejections : TransportFails(f)
    \/ \E reason \in ContextEnds : GoContextDone(reason)
    \/ TimeoutElapses
    \/ ReturnKept

SpecTwice == Init /\ [][NextTwice]_vars

----------------------------------------------------------------------------
(* Formatting an error *)

\* Go: err.Error() on an error value of the SDK
GoShowError(e) ==
    /\ shown' = MkShown("go", e, GoErrorString(e))
    /\ UNCHANGED <<newVars, pc, call, req, wire, prev, resp, timer, elapsed,
                   result, netCalls, sent, bodyOpen>>

\* TypeScript: String(err) on an error object of the SDK
TsShowError(e) ==
    /\ shown' = MkShown("ts", e, TsToString(e))
    /\ UNCHANGED <<newVars, pc, call, req, wire, prev, resp, timer, elapsed,
                   result, netCalls, sent, bodyOpen>>

NextStr ==
    \/ \E e \in GoErrors : GoShowError(e)
    \/ \E e \in TsErrors : TsShowError(e)

SpecStr == Init /\ [][NextStr]_vars

----------------------------------------------------------------------------
(* Vocabulary of the properties *)

\* the call has ended on a response that was received whole
AnsweredWhole == pc = "done" /\ resp.complete

\* the call has ended on a transport failure, no response received
TransportFailed == pc = "done" /\ resp.transport # ""

\* the value of a header that is a decimal integer, sign allowed
IsInteger(v) ==
    LET d == IF v # <<>> /\ v[1] \in {"+", "-"} THEN Tail(v) ELSE v
    IN  d # <<>> /\ \A i \in 1..Len(d) : d[i] \in Digits

RECURSIVE Pow10(_)
Pow10(k) == IF k = 0 THEN 1 ELSE 10 * Pow10(k - 1)

RECURSIVE Weighted(_)
\* sum of the digits of d weighted by their decimal place
Weighted(d) ==
    IF d = <<>> THEN 0
    ELSE DigitVal(Head(d)) * Pow10(Len(d) - 1) + Weighted(Tail(d))

IntegerOf(v) ==
    IF v[1] = "-" THEN 0 - Weighted(Tail(v))
    ELSE IF v[1] = "+" THEN Weighted(Tail(v))
    ELSE Weighted(v)

\* a header value no integer can be read from: it does not start with one
StartsWithInteger(v) ==
    \/ v # <<>> /\ v[1] \in Digits
    \/ Len(v) >= 2 /\ v[1] \in {"+", "-"} /\ v[2] \in Digits

\* the body is an error payload with this member a non-empty string
Supplies(f) == f.t = "str" /\ f.s # ""

\* the description desc appears in message, after some text of the wrapper
Mentions(message, desc) ==
    \/ desc = ""
    \/ \E before \in {"", "TypeError: ", "Error: "} : message = before \o desc

\* Go: the keys given by WithAPIKey options; TypeScript: config.apiKey
GivenKeys ==
    IF newIn.sdk = "go"
    THEN {newIn.opts[i].s : i \in {j \in DOMAIN newIn.opts :
                                     newIn.opts[j].opt = "WithAPIKey"}}
    ELSE IF newIn.config.apiKey.set THEN {newIn.config.apiKey.s} ELSE {}

\* the explicit base URLs and the regions given to the construction
GivenBaseURLs ==
    IF newIn.sdk = "go"
    THEN {newIn.opts[i].s : i \in {j \in DOMAIN newIn.opts :
                                     newIn.opts[j].opt = "WithBaseURL"}}
    ELSE IF newIn.config.baseUrl.set THEN {newIn.config.baseUrl.s} ELSE {}

GivenRegions ==
    IF newIn.sdk = "go"
    THEN {newIn.opts[i].s : i \in {j \in DOMAIN newIn.opts :
                                     newIn.opts[j].opt = "WithRegion"}}
    ELSE IF newIn.config.region.set THEN {newIn.config.region.s} ELSE {}

\* each kind of option given at most once
GivenOnce(name) ==
    newIn.sdk = "go" =>
        Cardinality({j \in DOMAIN newIn.opts : newIn.opts[j].opt = name}) <= 1

----------------------------------------------------------------------------
(* Properties *)

\* C1: a response with status s >= 400 makes request fail with an error of
\* kind Authentication for 401, NotFound for 404, RateLimit for 429 and the
\* generic API error otherwise, and the error's status code is s.
C1_StatusDecidesKind ==
    (AnsweredWhole /\ resp.status >= 400) =>
        /\ ~result.ok
        /\ result.err.status = resp.status
        /\ CASE resp.status = 401 -> result.err.kind = "AuthenticationError"
             [] resp.status = 404 -> result.err.kind = "NotFoundError"
             [] resp.status = 429 -> result.err.kind = "RateLimitError"
             [] OTHER -> result.err.kind \in GenericKinds

\* C2: once the timeout has elapsed with the response not yet received
\* whole, the call has ended, and it has ended in an SDK error of code
\* TIMEOUT.
C2_TimeoutBoundsWholeRequest ==
    elapsed =>
        /\ pc = "done"
        /\ ~result.ok
        /\ result.err.kind \in SdkKinds(client.sdk)
        /\ result.err.code = "TIMEOUT"

\* C3: the RateLimitError of a 429 response has retry_after N when the
\* Retry-After header is the integer N, and 60 when the header is missing
\* or no integer can be read from it.
C3_RetryAfter ==
    (AnsweredWhole /\ resp.status = 429 /\ result.err.kind = "RateLimitError") =>
        LET h == resp.retryAfter
        IN  /\ (h.present /\ IsInteger(h.v)) =>
                    result.err.retryAfter = Num(IntegerOf(h.v))
            /\ (~h.present \/ ~StartsWithInteger(h.v)) =>
                    result.err.retryAfter = Num(60)

\* C4: when the body of a response with status >= 400 is an error payload
\* with both a code and a message, the error carries exactly that code and
\* that message.
C4_ErrorCarriesPayload ==
    (/\ AnsweredWhole /\ resp.status >= 400
     /\ resp.body.t = "object"
     /\ Supplies(resp.body.code) /\ Supplies(resp.body.message)) =>
        /\ ~result.ok
        /\ result.err.code = resp.body.code.s
        /\ result.err.message = resp.body.message.s

\* C5: when the error response carries no message (an empty body, or a
\* payload without a message member), a 401 yields the message "Invalid or
\* expired API key" and a 404 at path p yields "Resource not found: " p.
C5_FallbackMessage ==
    (/\ AnsweredWhole
     /\ \/ resp.body.t = "empty"
        \/ resp.body.t = "object" /\ resp.body.message.t = "absent") =>
        /\ resp.status = 401 => result.err.message = "Invalid or expired API key"
        /\ resp.status = 404 =>
                result.err.message = "Resource not found: " \o req.path

\* C6: for a status >= 400 other than 401, 404 and 429 the generic error has
\* the code of the body when the body supplies one, and UNKNOWN when the
\* body cannot be parsed or parses to JSON without a code member.
C6_GenericCode ==
    (AnsweredWhole /\ resp.status >= 400 /\ resp.status \notin {401, 404, 429}) =>
        /\ result.err.kind \in GenericKinds
        /\ (resp.body.t = "object" /\ Supplies(resp.body.code)) =>
                result.err.code = resp.body.code.s
        /\ (\/ resp.body.t \in {"empty", "text"}
            \/ resp.body.t = "object" /\ resp.body.code.t = "absent") =>
                result.err.code = "UNKNOWN"

\* C7: a response with status below 400 makes request succeed and hand the
\* body to the caller; only a status >= 400 produces an error.  (The
\* TypeScript client hands the body over as parsed JSON; a body that is not
\* JSON is left out, its parsing being the caller's concern.)
C7_Below400Succeeds ==
    (/\ AnsweredWhole /\ resp.status < 400
     /\ client.sdk = "ts" => TsJsonOk(resp.body)) =>
        /\ result.ok
        /\ client.sdk = "go" => result.bytes = Raw(resp.body)
        /\ client.sdk = "ts" => result.json = resp.body

\* C8: a transport failure that is not the timeout makes request fail with
\* an SDK error of code NETWORK_ERROR whose message holds the description
\* of the failure.
C8_NetworkError ==
    TransportFailed =>
        /\ ~result.ok
        /\ result.err.kind \in SdkKinds(client.sdk)
        /\ result.err.code = "NETWORK_ERROR"
        /\ Mentions(result.err.message, resp.transport)

\* C9: a construction given no non-empty API key, explicitly or through the
\* environment, fails with an AuthenticationError, yields no client and
\* sends nothing.
C9_NoKeyNoClient ==
    (newIn.sdk # "none" /\ env = "" /\ GivenKeys \subseteq {""}) =>
        /\ newOut.err.kind = "AuthenticationError"
        /\ newOut.client = NoClient
        /\ client = NoClient
        /\ netCalls = 0

\* C10: a constructed client uses the explicit base URL when one is given,
\* whatever region is given and in whatever order; else the URL of the
\* given region when it is a known one; else the URL of ap-southeast-2.
C10_BaseURLResolution ==
    (/\ newOut.client # NoClient
     /\ GivenOnce("WithBaseURL") /\ GivenOnce("WithRegion")) =>
        newOut.client.baseURL =
            IF GivenBaseURLs # {} THEN CHOOSE u \in GivenBaseURLs : TRUE
            ELSE IF GivenRegions # {} /\ GivenRegions \subseteq DOMAIN endpoints
                 THEN endpoints[CHOOSE r \in GivenRegions : TRUE]
            ELSE "https://api.meshlogic.ai"

\* the timeouts given to the construction
GivenTimeouts ==
    IF newIn.sdk = "go"
    THEN {newIn.opts[i].d : i \in {j \in DOMAIN newIn.opts :
                                     newIn.opts[j].opt = "WithTimeout"}}
    ELSE IF newIn.config.timeout.set THEN {newIn.config.timeout.d} ELSE {}

\* C16: every failure of request reaches the caller as one of the SDK's
\* typed errors, never as an untyped underlying error.
C16_FailuresAreTyped ==
    (pc = "done" /\ ~result.ok) => result.err.kind \in SdkKinds(client.sdk)

\* C17: a response with status 400 makes request fail with a
\* ValidationError, which carries the field the error body names.
C17_ValidationError ==
    (AnsweredWhole /\ resp.status = 400) =>
        /\ ~result.ok
        /\ result.err.kind = "ValidationError"
        /\ (resp.body.t = "object" /\ resp.body.field.t = "str") =>
                result.err.field = resp.body.field.s

\* C20: the timeout a constructed client applies is the configured value
\* whenever one is given, whatever the value and the order of the options,
\* and 30000 ms when none is given (and the caller brings no http.Client
\* of its own).
C20_TimeoutResolution ==
    (newOut.client # NoClient /\ GivenOnce("WithTimeout")) =>
        /\ GivenTimeouts # {} =>
                Timeout(newOut.client, sharedHttp) = CHOOSE d \in GivenTimeouts : TRUE
        /\ (GivenTimeouts = {} /\ newOut.client.http = "own") =>
                Timeout(newOut.client, sharedHttp) = 30000

\* C12: a call to request sends at most one HTTP request; whatever the
\* outcome of the attempt, the call ends with it (a call that ends before
\* the network has sent none).
C12_SingleAttempt ==
    /\ sent <= 1
    /\ pc \in {"fetch", "body"} => sent = 1
    /\ pc = "done" => sent = IF wire = NoWire THEN 0 ELSE 1

\* C12 witness: a call has ended on a 429 answer after its one request
C12_Witness ==
    /\ pc = "done"
    /\ resp.complete
    /\ resp.status = 429
    /\ result.err.kind = "RateLimitError"
    /\ sent = 1

\* C13: when request returns or throws, no timeout timer of the call is
\* scheduled and no response body of the call is left open.
C13_NothingLeaked == pc = "done" => (~timer /\ ~bodyOpen)

\* C13 witness: a call that had a timer scheduled and a response body open
\* has ended on an HTTP error
C13_Witness ==
    /\ pc = "done"
    /\ resp.complete
    /\ resp.status = 500
    /\ ~result.ok
    /\ Timeout(client, sharedHttp) > 0

\* C14: the configuration a client resolved at construction (API key, base
\* URL, timeout) never changes afterwards, whatever requests run and
\* whatever other clients are constructed.
C14_ConfigImmutable ==
    [][client # NoClient =>
         /\ client' = client
         /\ Timeout(client', sharedHttp') = Timeout(client, sharedHttp)]_vars

\* the outcome request produces for the complete response the call got
RequestOutcome ==
    IF client.sdk = "go"
    THEN GoHandleResponse(resp.status, resp.retryAfter, resp.body)
    ELSE TsHandleResponse(resp.status, resp.retryAfter, resp.body, req.path)

\* C11: no request the SDK sends has a query entry with an empty value (no
\* "key="), and a parameter handed to request without a value has no entry.
C11_NoEmptyQueryEntries ==
    wire # NoWire =>
        /\ \A i \in DOMAIN wire.query : wire.query[i][2] # <<>>
        /\ (client.sdk = "ts" /\ call.op # "events.export") =>
              \A j \in DOMAIN req.params :
                  req.params[j][2] = Undefined =>
                      \A i \in DOMAIN wire.query : wire.query[i][1] # req.params[j][1]

\* C15: a resource method whose request was answered 401, 404 or 429 fails
\* with exactly the error request produces for that response, of the kind
\* that goes with the status.
C15_MethodsPropagate ==
    (pc = "done" /\ resp.status \in {401, 404, 429} /\ call.op # "request") =>
        /\ resp.complete =>
              (~result.ok /\ result.err = RequestOutcome.err)
        /\ call.op = "events.export" =>
              /\ ~result.ok
              /\ result.err.kind = CASE resp.status = 401 -> "AuthenticationError"
                                      [] resp.status = 404 -> "NotFoundError"
                                      [] resp.status = 429 -> "RateLimitError"

\* C19: every HTTP request the SDK sends carries Authorization with the
\* bearer key, Content-Type application/json and the SDK's User-Agent.
C19_ThreeHeaders ==
    wire # NoWire =>
        wire.headers = {<<"Authorization", "Bearer " \o client.apiKey>>,
                        <<"Content-Type", "application/json">>,
                        <<"User-Agent", IF client.sdk = "go" THEN "meshlogic-go/0.1.0"
                                        ELSE "meshlogic-typescript/0.1.0">>}

\* the pieces of the string form include the text x
Shows(x) == \E i \in DOMAIN shown.parts : shown.parts[i] = x

\* C18 as stated: the string form of an error of any kind contains its
\* non-empty code; a RateLimit error's contains the retry delay and a
\* Validation error's contains the field when the field is set.
C18_StringFormAsStated ==
    shown # NoShown =>
        /\ shown.err.code # "" => Shows(shown.err.code)
        /\ shown.err.kind = "RateLimitError" => Shows(NumText(shown.err.retryAfter))
        /\ (shown.err.kind = "ValidationError" /\ shown.err.field # "") =>
              Shows(shown.err.field)

\* C18 amended: the string form of a generic, Authentication or NotFound
\* error contains its non-empty code; a RateLimit error's contains the
\* message and the retry delay and a Validation error's the message and the
\* field when set, both without the code.
C18_StringForm ==
    shown # NoShown =>
        /\ (shown.err.kind \notin {"RateLimitError", "ValidationError"}
              /\ shown.err.code # "") => Shows(shown.err.code)
        /\ shown.err.kind = "RateLimitError" =>
              /\ Shows(NumText(shown.err.retryAfter))
              /\ shown.parts[1] = shown.err.message
              /\ Len(shown.parts) = 4
        /\ shown.err.kind = "ValidationError" =>
              /\ shown.err.field # "" => Shows(shown.err.field)
              /\ shown.parts[Len(shown.parts)] = shown.err.message
              /\ Len(shown.parts) = IF shown.err.field # "" THEN 4 ELSE 2

\* C18 witness: an Authentication error with a code has been formatted and
\* its string form is "[code] message"
C18_Witness ==
    /\ shown # NoShown
    /\ shown.err.kind = "AuthenticationError"
    /\ shown.err.code # ""
    /\ shown.text = "[" \o shown.err.code \o "] " \o shown.err.message

\* C22: a completed call of the Go request returns exactly one of a body
\* and an error: with an error there is no body; without one, the call sent
\* one request, its response arrived whole with a status below 400, and the
\* bytes returned are that response's body.
C22_BodyOrError ==
    (client.sdk = "go" /\ pc = "done" /\ call.op = "request") =>
        /\ result.ok <=> result.err = NoErr
        /\ ~result.ok => result.bytes = ""
        /\ result.ok =>
              /\ sent = 1
              /\ resp.complete
              /\ resp.transport = ""
              /\ resp.status < 400
              /\ result.bytes = Raw(resp.body)

\* C22 witness: a Go request has returned the bytes of a 200 response that
\* carries a JSON object
C22_Witness ==
    /\ client.sdk = "go"
    /\ pc = "done"
    /\ call.op = "request"
    /\ result.ok
    /\ result.err = NoErr
    /\ resp.status = 200
    /\ resp.body.t = "object"
    /\ result.bytes = Raw(resp.body)

\* the call that has ended is the call made before, answered the same way
SameExchange ==
    /\ pc = "done"
    /\ prev # NoPrev
    /\ prev.call = call
    /\ prev.resp = resp
    /\ prev.elapsed = elapsed

\* C21: the same call made twice on one client sends the same URL and
\* headers, and when the server answers both the same way the two outcomes
\* are the same: nothing of the first call reaches the second.
C21_SameCallSameOutcome ==
    /\ (prev # NoPrev /\ wire # NoWire /\ prev.call = call) => wire = prev.wire
    /\ SameExchange => result = prev.result

\* C21 witness: a call with query parameters has succeeded a second time on
\* the same answer
C21_Witness ==
    /\ SameExchange
    /\ result.ok
    /\ wire.query # <<>>
    /\ netCalls = 2

====
